---- MODULE Spec2Model ----
(***************************************************************************)
(* Model of src/app.py (Text-to-Podcast Generator).                        *)
(*                                                                         *)
(* Python strings are modelled as sequences of one-character strings.      *)
(* Two specifications are given:                                           *)
(*   Spec    one call of process_text_in_chunks(text, processor,           *)
(*           chunk_size) with text and chunk_size drawn from bounded sets; *)
(*   SpecUI  a browser session: every Streamlit script run handles one     *)
(*           button click (tab1, tab2, tab3, audio) and st.session_state   *)
(*           persists between runs.                                        *)
(***************************************************************************)
EXTENDS Integers, Sequences, FiniteSets, TLC

VARIABLES
    pc,               \* position of the running script / function
    caller,           \* which request is running
    text,             \* process_text_in_chunks: parameter text (also the topic / edited script)
    chunk_size,       \* process_text_in_chunks: parameter chunk_size
    chunks,           \* process_text_in_chunks: local chunks
    cidx,             \* process_text_in_chunks: 1-based position of the enumerate() loop
    processed_chunks, \* process_text_in_chunks: local processed_chunks
    ret,              \* value returned by the helper function of the request
    raised,           \* TRUE once an exception escaped a helper function
    editable_text,    \* st.session_state.editable_text
    notice,           \* last st.warning / st.error / st.success shown by a handler
    calls,            \* log of the collaborator calls of the current request
    failedBefore      \* some earlier request had a failed collaborator call

vars == <<pc, caller, text, chunk_size, chunks, cidx, processed_chunks, ret,
          raised, editable_text, notice, calls, failedBefore>>

----------------------------------------------------------------------------
(* Bounds of the model *)

MaxLen == 5
MaxChunkSize == 6

(* Program constant: default of the chunk_size parameter *)
DefaultChunkSize == 1024

----------------------------------------------------------------------------
(* Values *)

NL == "\n"
SP == " "
Alphabet == {"a", SP, NL}

\* characters str.strip() removes (those that occur in the model)
Whitespace == {SP, NL, "\t", "\r"}

\* Python None and a missing session_state key, kept distinct from every string
None == <<"None">>
Absent == <<"Absent">>

Texts == UNION {[1..n -> Alphabet] : n \in 0..MaxLen}

\* scripts a successful text_generator call can hand back
Scripts == {<<"x">>, <<"y">>}

\* strings a successful processor call can hand back
Outputs == {<<>>} \cup Scripts

P1 == <<"P","a","r","a","g","r","a","p","h"," ","o","n","e",".">>
P2 == <<"P","a","r","a","g","r","a","p","h"," ","t","w","o",".">>
P3 == <<"P","a","r","a","g","r","a","p","h"," ","t","h","r","e","e",".">>
ExampleText == P1 \o <<NL>> \o P2 \o <<NL>> \o P3
ExampleInput == [text |-> ExampleText, chunk_size |-> 20]

----------------------------------------------------------------------------
(* Library functions, computed as Python computes them *)

\* bool(s) for a str or None
Truthy(s) == s # None /\ s # Absent /\ s # <<>>

\* str.split('\n')
RECURSIVE SplitLines(_)
SplitLines(s) ==
    IF \A i \in DOMAIN s : s[i] # NL
    THEN <<s>>
    ELSE LET i == CHOOSE k \in DOMAIN s : s[k] = NL /\ \A j \in 1..(k-1) : s[j] # NL
         IN  <<SubSeq(s, 1, i-1)>> \o SplitLines(SubSeq(s, i+1, Len(s)))

\* str.strip()
RECURSIVE LStrip(_)
LStrip(s) == IF s # <<>> /\ s[1] \in Whitespace THEN LStrip(Tail(s)) ELSE s

RECURSIVE RStrip(_)
RStrip(s) ==
    IF s # <<>> /\ s[Len(s)] \in Whitespace THEN RStrip(SubSeq(s, 1, Len(s)-1)) ELSE s

Strip(s) == RStrip(LStrip(s))

\* " ".join(list)
JoinNoSeparator(list) ==
    LET RECURSIVE J(_)
        J(l) == IF l = <<>> THEN <<>> ELSE l[1] \o J(Tail(l))
    IN  J(list)

RECURSIVE JoinSpace(_)
JoinSpace(list) ==
    IF list = <<>> THEN <<>>
    ELSE IF Len(list) = 1 THEN list[1]
    ELSE list[1] \o <<SP>> \o JoinSpace(Tail(list))

----------------------------------------------------------------------------
(* process_text_in_chunks: the splitting step (lines 76-85) *)

FitsOffByOne(current_chunk, paragraph, size) ==
    Len(current_chunk) + Len(paragraph) + 1 <= size

FitsEarly(current_chunk, paragraph, size) ==
    Len(current_chunk) + Len(paragraph) + 1 < size - 1

FitsIgnoringBuffer(current_chunk, paragraph, size) ==
    Len(paragraph) + 1 < size

\* line 80: the test of the if
Fits(current_chunk, paragraph, size) ==
    Len(current_chunk) + Len(paragraph) + 1 < size

NewBufferNoBreak(paragraph) == paragraph

\* line 84: the buffer restarted with the paragraph that did not fit
NewBuffer(paragraph) == paragraph \o <<NL>>

\* lines 79-85: the for loop over paragraphs and the final append
RECURSIVE ChunkLoop(_, _, _, _, _)
ChunkLoop(paragraphs, i, current_chunk, acc, size) ==
    IF i > Len(paragraphs)
    THEN Append(acc, current_chunk)
    ELSE IF Fits(current_chunk, paragraphs[i], size)
         THEN ChunkLoop(paragraphs, i+1, current_chunk \o paragraphs[i] \o <<NL>>, acc, size)
         ELSE ChunkLoop(paragraphs, i+1, NewBuffer(paragraphs[i]),
                        Append(acc, current_chunk), size)

\* lines 76-85
SplitChunks(t, size) == ChunkLoop(SplitLines(t), 1, <<>>, <<>>, size)

----------------------------------------------------------------------------
(* process_text_in_chunks: actions *)

EmptyResultNone == None

\* line 74: the value returned for a falsy text
EmptyResult == <<>>

\* lines 73-74
EarlyReturn ==
    /\ pc = "entry"
    /\ ~Truthy(text)
    /\ ret' = EmptyResult
    /\ pc' = "return"
    /\ UNCHANGED <<caller, text, chunk_size, chunks, cidx, processed_chunks,
                   raised, editable_text, notice, calls, failedBefore>>

\* lines 76-87
Split ==
    /\ pc = "entry"
    /\ Truthy(text)
    /\ chunks' = SplitChunks(text, chunk_size)
    /\ processed_chunks' = <<>>
    /\ cidx' = 1
    /\ pc' = "loop"
    /\ UNCHANGED <<caller, text, chunk_size, ret, raised, editable_text, notice,
                   calls, failedBefore>>

SkipsOnlyEmpty(chunk) == chunk # <<>>

\* line 90: if chunk.strip()
ChunkIsProcessed(chunk) == Truthy(Strip(chunk))

\* lines 89-90, chunk.strip() falsy: next iteration
TransformSkip ==
    /\ pc = "loop"
    /\ cidx <= Len(chunks)
    /\ ~ChunkIsProcessed(chunks[cidx])
    /\ cidx' = cidx + 1
    /\ UNCHANGED <<pc, caller, text, chunk_size, chunks, processed_chunks, ret,
                   raised, editable_text, notice, calls, failedBefore>>

\* lines 92-94: processor(chunk, **kwargs) returns and its text is appended
TransformOk ==
    /\ pc = "loop"
    /\ cidx <= Len(chunks)
    /\ ChunkIsProcessed(chunks[cidx])
    /\ \E out \in Outputs :
          /\ processed_chunks' = Append(processed_chunks, out)
          /\ calls' = Append(calls, [op |-> "transform", idx |-> cidx,
                                     arg |-> chunks[cidx], ok |-> TRUE, out |-> out])
    /\ cidx' = cidx + 1
    /\ UNCHANGED <<pc, caller, text, chunk_size, chunks, ret, raised,
                   editable_text, notice, failedBefore>>

TransformFailBreak ==
    /\ pc = "loop"
    /\ cidx <= Len(chunks)
    /\ ChunkIsProcessed(chunks[cidx])
    /\ calls' = Append(calls, [op |-> "transform", idx |-> cidx,
                               arg |-> chunks[cidx], ok |-> FALSE, out |-> None])
    /\ cidx' = Len(chunks) + 1
    /\ UNCHANGED <<pc, caller, text, chunk_size, chunks, processed_chunks, ret,
                   raised, editable_text, notice, failedBefore>>

\* lines 92-96: processor(chunk, **kwargs) raises; warning, next iteration
TransformFail ==
    /\ pc = "loop"
    /\ cidx <= Len(chunks)
    /\ ChunkIsProcessed(chunks[cidx])
    /\ calls' = Append(calls, [op |-> "transform", idx |-> cidx,
                               arg |-> chunks[cidx], ok |-> FALSE, out |-> None])
    /\ cidx' = cidx + 1
    /\ UNCHANGED <<pc, caller, text, chunk_size, chunks, processed_chunks, ret,
                   raised, editable_text, notice, failedBefore>>

\* line 97
JoinReturn ==
    /\ pc = "loop"
    /\ cidx > Len(chunks)
    /\ ret' = JoinSpace(processed_chunks)
    /\ pc' = "return"
    /\ UNCHANGED <<caller, text, chunk_size, chunks, cidx, processed_chunks,
                   raised, editable_text, notice, calls, failedBefore>>

----------------------------------------------------------------------------
(* Specification of one call of process_text_in_chunks *)

Init ==
    /\ \/ text \in Texts /\ chunk_size \in 1..MaxChunkSize
       \/ text = ExampleInput.text /\ chunk_size = ExampleInput.chunk_size
    /\ pc = "entry"
    /\ caller = "direct"
    /\ chunks = <<>>
    /\ cidx = 1
    /\ processed_chunks = <<>>
    /\ ret = None
    /\ raised = FALSE
    /\ editable_text = Absent
    /\ notice = "none"
    /\ calls = <<>>
    /\ failedBefore = FALSE

Next ==
    \/ EarlyReturn
    \/ Split
    \/ TransformSkip
    \/ TransformOk
    \/ TransformFail
    \/ JoinReturn

Spec == Init /\ [][Next]_vars

----------------------------------------------------------------------------
(* The Streamlit session: one script run per button click *)

\* a script run starts: the locals of the previous run are gone
StartRun(c, t, p) ==
    /\ caller' = c
    /\ text' = t
    /\ pc' = p
    /\ chunk_size' = DefaultChunkSize
    /\ chunks' = <<>>
    /\ cidx' = 1
    /\ processed_chunks' = <<>>
    /\ ret' = None
    /\ calls' = <<>>
    /\ notice' = "none"
    /\ UNCHANGED <<raised, editable_text, failedBefore>>

\* a script run ends with session_state.editable_text = e and message n on screen
EndRun(e, n) ==
    /\ pc' = "idle"
    /\ caller' = "none"
    /\ editable_text' = e
    /\ notice' = n
    /\ failedBefore' = (failedBefore \/ \E i \in DOMAIN calls : ~calls[i].ok)
    /\ text' = <<>>
    /\ chunks' = <<>>
    /\ cidx' = 1
    /\ processed_chunks' = <<>>
    /\ ret' = None
    /\ calls' = <<>>
    /\ UNCHANGED <<chunk_size, raised>>

\* lines 169-179: a file whose extracted text is truthy, button summarize_doc
Tab1Click ==
    /\ pc = "idle"
    /\ \E raw_text \in Texts :
          /\ Truthy(raw_text)
          /\ StartRun("tab1", raw_text, "entry")

\* line 180
Tab1Store ==
    /\ pc = "return"
    /\ caller = "tab1"
    /\ EndRun(ret, notice)

\* lines 187-194: button summarize_text with raw_text_input.strip() truthy
Tab2Click ==
    /\ pc = "idle"
    /\ \E raw_text_input \in Texts :
          /\ Truthy(Strip(raw_text_input))
          /\ StartRun("tab2", raw_text_input, "entry")

\* line 195
Tab2Store ==
    /\ pc = "return"
    /\ caller = "tab2"
    /\ EndRun(ret, notice)

\* lines 187-188, 196-197: button summarize_text on blank input
Tab2Warn ==
    /\ pc = "idle"
    /\ \E raw_text_input \in Texts : ~Truthy(Strip(raw_text_input))
    /\ notice' = "warning_enter_text"
    /\ UNCHANGED <<pc, caller, text, chunk_size, chunks, cidx, processed_chunks,
                   ret, raised, editable_text, calls, failedBefore>>

\* lines 204-206: button generate_topic with topic_input.strip() truthy
Tab3Click ==
    /\ pc = "idle"
    /\ \E topic_input \in Texts :
          /\ Truthy(Strip(topic_input))
          /\ StartRun("tab3", topic_input, "generate")

\* lines 204-205, 208-209: button generate_topic on a blank topic
Tab3Warn ==
    /\ pc = "idle"
    /\ \E topic_input \in Texts : ~Truthy(Strip(topic_input))
    /\ notice' = "warning_enter_topic"
    /\ UNCHANGED <<pc, caller, text, chunk_size, chunks, cidx, processed_chunks,
                   ret, raised, editable_text, calls, failedBefore>>

\* lines 102-104: text_generator returns
GenerateOk ==
    /\ pc = "generate"
    /\ \E out \in Scripts :
          /\ ret' = out
          /\ calls' = Append(calls, [op |-> "generate", idx |-> 0, arg |-> text,
                                     ok |-> TRUE, out |-> out])
    /\ pc' = "return"
    /\ UNCHANGED <<caller, text, chunk_size, chunks, cidx, processed_chunks,
                   raised, editable_text, notice, failedBefore>>

\* lines 102-107: text_generator raises
GenerateFail ==
    /\ pc = "generate"
    /\ calls' = Append(calls, [op |-> "generate", idx |-> 0, arg |-> text,
                               ok |-> FALSE, out |-> None])
    /\ ret' = None
    /\ notice' = "error_generate"
    /\ pc' = "return"
    /\ UNCHANGED <<caller, text, chunk_size, chunks, cidx, processed_chunks,
                   raised, editable_text, failedBefore>>

\* line 207
Tab3Store ==
    /\ pc = "return"
    /\ caller = "tab3"
    /\ EndRun(ret, notice)

\* line 213: the editor and the audio button are rendered
EditorShown == Truthy(editable_text)

\* lines 218-223: what the text area can hold when the audio button is clicked
Edits(script) == {script, <<SP>>}

\* lines 225-228: audio button with edited_text.strip() truthy
AudioClick ==
    /\ pc = "idle"
    /\ EditorShown
    /\ \E edited_text \in Edits(editable_text) :
          /\ Truthy(Strip(edited_text))
          /\ StartRun("audio", edited_text, "synth")

\* lines 225-226, 238-239: audio button on a blank script
AudioEmpty ==
    /\ pc = "idle"
    /\ EditorShown
    /\ \E edited_text \in Edits(editable_text) : ~Truthy(Strip(edited_text))
    /\ notice' = "error_script_empty"
    /\ UNCHANGED <<pc, caller, text, chunk_size, chunks, cidx, processed_chunks,
                   ret, raised, editable_text, calls, failedBefore>>

\* line 136: response.audio_content for the given text
AudioContent(t) == <<"mp3">> \o t

\* lines 132-136: tts_client.synthesize_speech returns
SynthOk ==
    /\ pc = "synth"
    /\ ret' = AudioContent(text)
    /\ calls' = Append(calls, [op |-> "synthesize", idx |-> 0, arg |-> text,
                               ok |-> TRUE, out |-> AudioContent(text)])
    /\ pc' = "return"
    /\ UNCHANGED <<caller, text, chunk_size, chunks, cidx, processed_chunks,
                   raised, editable_text, notice, failedBefore>>

SynthFailUncaught ==
    /\ pc = "synth"
    /\ calls' = Append(calls, [op |-> "synthesize", idx |-> 0, arg |-> text,
                               ok |-> FALSE, out |-> None])
    /\ raised' = TRUE
    /\ pc' = "return"
    /\ UNCHANGED <<caller, text, chunk_size, chunks, cidx, processed_chunks, ret,
                   editable_text, notice, failedBefore>>

\* lines 132-139: tts_client.synthesize_speech raises
SynthFail ==
    /\ pc = "synth"
    /\ calls' = Append(calls, [op |-> "synthesize", idx |-> 0, arg |-> text,
                               ok |-> FALSE, out |-> None])
    /\ ret' = None
    /\ notice' = "error_synthesis"
    /\ pc' = "return"
    /\ UNCHANGED <<caller, text, chunk_size, chunks, cidx, processed_chunks,
                   raised, editable_text, failedBefore>>

\* lines 229-237
AudioDone ==
    /\ pc = "return"
    /\ caller = "audio"
    /\ EndRun(editable_text, IF Truthy(ret) THEN "success_audio" ELSE notice)

InitUI ==
    /\ pc = "idle"
    /\ caller = "none"
    /\ text = <<>>
    /\ chunk_size = DefaultChunkSize
    /\ chunks = <<>>
    /\ cidx = 1
    /\ processed_chunks = <<>>
    /\ ret = None
    /\ raised = FALSE
    /\ editable_text = Absent
    /\ notice = "none"
    /\ calls = <<>>
    /\ failedBefore = FALSE

\* the handlers call process_text_in_chunks with a truthy text only (lines 171, 188)
NextUI ==
    \/ Tab1Click
    \/ Tab2Click
    \/ Tab2Warn
    \/ Tab3Click
    \/ Tab3Warn
    \/ AudioClick
    \/ AudioEmpty
    \/ Split
    \/ TransformSkip
    \/ TransformOk
    \/ TransformFail
    \/ JoinReturn
    \/ GenerateOk
    \/ GenerateFail
    \/ SynthOk
    \/ SynthFail
    \/ Tab1Store
    \/ Tab2Store
    \/ Tab3Store
    \/ AudioDone

SpecUI == InitUI /\ [][NextUI]_vars

----------------------------------------------------------------------------
(* Vocabulary of the properties *)

\* the chunks of the running call are built
SplitDone == pc \in {"loop", "return"} /\ Truthy(text)

\* process_text_in_chunks has returned for a non-empty text
Returned == pc = "return" /\ caller \in {"direct", "tab1", "tab2"} /\ Truthy(text)

RECURSIVE Flatten(_)
Flatten(list) == IF list = <<>> THEN <<>> ELSE list[1] \o Flatten(Tail(list))

\* every paragraph unit of a chunk ends with its line break
NumUnits(chunk) == Cardinality({i \in DOMAIN chunk : chunk[i] = NL})

\* length of the first paragraph unit of a non-empty chunk, line break excluded
FirstUnitLen(chunk) ==
    (CHOOSE k \in DOMAIN chunk : chunk[k] = NL /\ \A j \in 1..(k-1) : chunk[j] # NL) - 1

HasNonWhitespace(s) == \E i \in DOMAIN s : s[i] \notin Whitespace

NonBlankChunks == {k \in DOMAIN chunks : HasNonWhitespace(chunks[k])}

FailedCalls == {i \in DOMAIN calls : ~calls[i].ok}

CallsOf(k) == {i \in DOMAIN calls : calls[i].idx = k}

IsOk(c) == c.ok

\* outputs of the successful transform calls, in call order
OkOutputs == LET s == SelectSeq(calls, IsOk) IN [i \in 1..Len(s) |-> s[i].out]

\* offset in the joined string at which output k starts (0-based)
RECURSIVE OffsetOf(_, _)
OffsetOf(outs, k) == IF k = 1 THEN 0 ELSE OffsetOf(outs, k-1) + Len(outs[k-1]) + 1

----------------------------------------------------------------------------
(* C1: the chunks, concatenated in index order, are the paragraph units of
   text in their original order, each followed by one line break (the text
   followed by one line break), and no chunk boundary falls inside a
   paragraph unit: every non-empty chunk ends with a line break. *)
C1_ChunksReproduceText ==
    SplitDone =>
        /\ Flatten(chunks) = text \o <<NL>>
        /\ \A k \in DOMAIN chunks : chunks[k] = <<>> \/ chunks[k][Len(chunks[k])] = NL

C1_Witness ==
    /\ SplitDone
    /\ Len(chunks) >= 2
    /\ \E k \in DOMAIN chunks : NumUnits(chunks[k]) >= 2 /\ HasNonWhitespace(chunks[k])

(* C2 as amended: a chunk whose length is >= chunk_size holds exactly one
   paragraph unit, and that unit with its line break reaches chunk_size
   (its own length is >= chunk_size - 1); every other chunk is shorter than
   chunk_size. *)
C2_OversizedChunkIsOneUnit ==
    SplitDone =>
        \A k \in DOMAIN chunks :
            Len(chunks[k]) >= chunk_size =>
                /\ NumUnits(chunks[k]) = 1
                /\ FirstUnitLen(chunks[k]) >= chunk_size - 1

C2_Witness ==
    /\ SplitDone
    /\ \E k \in DOMAIN chunks :
          /\ Len(chunks[k]) >= chunk_size
          /\ FirstUnitLen(chunks[k]) = chunk_size - 1
    /\ \E k \in DOMAIN chunks : Len(chunks[k]) > chunk_size

(* C2 as stated: a chunk whose length is >= chunk_size holds exactly one
   paragraph unit whose own length exceeds chunk_size. *)
C2_AsStated ==
    SplitDone =>
        \A k \in DOMAIN chunks :
            Len(chunks[k]) >= chunk_size =>
                /\ NumUnits(chunks[k]) = 1
                /\ FirstUnitLen(chunks[k]) > chunk_size

(* C3 as amended: when the transform fails on exactly one chunk, it was
   still invoked exactly once for each of the N chunks that hold a
   non-whitespace character, and the returned string is the join of the
   other N-1 outputs in chunk order. *)
C3_OneFailureSkipsOnlyThatChunk ==
    (Returned /\ Cardinality(FailedCalls) = 1) =>
        /\ \A k \in NonBlankChunks : Cardinality(CallsOf(k)) = 1
        /\ Len(calls) = Cardinality(NonBlankChunks)
        /\ Len(OkOutputs) = Cardinality(NonBlankChunks) - 1
        /\ \A i, j \in DOMAIN calls : i < j => calls[i].idx < calls[j].idx
        /\ ret = JoinSpace(OkOutputs)

C3_Witness ==
    /\ Returned
    /\ Cardinality(FailedCalls) = 1
    /\ Len(calls) >= 2
    /\ ~calls[1].ok
    /\ calls[2].ok

(* C3 as stated: when the transform fails on exactly one of the N chunks
   the splitting step produced, it was invoked for all N chunks and the
   returned string is the join of the other N-1 outputs. *)
C3_AsStated ==
    (Returned /\ Cardinality(FailedCalls) = 1) =>
        /\ \A k \in DOMAIN chunks : Cardinality(CallsOf(k)) = 1
        /\ Len(OkOutputs) = Len(chunks) - 1
        /\ ret = JoinSpace(OkOutputs)

(* C4: for a non-empty text the returned value is a string (never None)
   made of the outputs of the successful transform calls in increasing
   chunk order, consecutive outputs separated by exactly one space, nothing
   before the first or after the last; it is empty when no call succeeded. *)
C4_ResultIsSpaceJoinedOutputs ==
    Returned =>
        LET outs == OkOutputs
            n == Len(outs)
        IN  /\ ret # None
            /\ \A i, j \in DOMAIN calls : i < j => calls[i].idx < calls[j].idx
            /\ Len(ret) = (IF n = 0 THEN 0 ELSE OffsetOf(outs, n) + Len(outs[n]))
            /\ \A k \in 1..n :
                  /\ SubSeq(ret, OffsetOf(outs, k) + 1, OffsetOf(outs, k) + Len(outs[k])) = outs[k]
                  /\ k < n => ret[OffsetOf(outs, k) + Len(outs[k]) + 1] = SP
            /\ n = 0 => ret = <<>>

C4_Witness ==
    /\ Returned
    /\ Len(OkOutputs) >= 2
    /\ OkOutputs[1] # OkOutputs[2]
    /\ FailedCalls # {}

(* C5: called with the empty text, process_text_in_chunks returns the
   empty string and makes no transform call. *)
C5_EmptyTextReturnsEmpty ==
    (pc = "return" /\ caller = "direct" /\ text = <<>>) => (ret = <<>> /\ calls = <<>>)

C5_Witness == pc = "return" /\ caller = "direct" /\ text = <<>> /\ chunk_size > 1

(* C6 as amended: for the three-paragraph example and chunk_size 20 the
   chunks are the three paragraphs in order, each followed by a line break,
   the last one included; no empty chunk is produced. *)
C6_ExampleChunks ==
    (SplitDone /\ text = ExampleInput.text /\ chunk_size = ExampleInput.chunk_size) =>
        chunks = <<P1 \o <<NL>>, P2 \o <<NL>>, P3 \o <<NL>>>>

C6_Witness ==
    SplitDone /\ text = ExampleInput.text /\ chunk_size = ExampleInput.chunk_size

(* C6 as stated: the chunks of the example are the three paragraphs, the
   last one without a trailing line break. *)
C6_AsStated ==
    (SplitDone /\ text = ExampleInput.text /\ chunk_size = ExampleInput.chunk_size) =>
        chunks = <<P1 \o <<NL>>, P2 \o <<NL>>, P3>>

(* C8 as amended: for consecutive chunks the length of the earlier one plus
   the first paragraph unit of the later one with its line break is
   >= chunk_size; every chunk after the first holds at least one paragraph
   unit, and the first chunk is empty exactly when the first paragraph unit
   of the text with its line break reaches chunk_size. *)
C8_GreedyClose ==
    SplitDone =>
        /\ \A k \in DOMAIN chunks :
              k < Len(chunks) =>
                  Len(chunks[k]) + FirstUnitLen(chunks[k+1]) + 1 >= chunk_size
        /\ \A k \in DOMAIN chunks : k > 1 => NumUnits(chunks[k]) >= 1
        /\ chunks[1] = <<>> => Len(chunks) >= 2
        /\ chunks[1] = <<>> <=> FirstUnitLen(text \o <<NL>>) + 1 >= chunk_size

C8_Witness ==
    /\ SplitDone
    /\ Len(chunks) >= 3
    /\ chunks[1] = <<>>
    /\ \E k \in DOMAIN chunks : NumUnits(chunks[k]) >= 2

(* C8 as stated: for consecutive chunks the length of the earlier one plus
   the first paragraph unit of the later one with its line break is
   >= chunk_size, and every chunk holds at least one paragraph unit. *)
C8_AsStated ==
    SplitDone =>
        /\ \A k \in DOMAIN chunks :
              k < Len(chunks) =>
                  Len(chunks[k]) + FirstUnitLen(chunks[k+1]) + 1 >= chunk_size
        /\ \A k \in DOMAIN chunks : NumUnits(chunks[k]) >= 1

(* C10: every transform call receives a chunk holding a non-whitespace
   character; once the call returns, each such chunk has had exactly one
   call, empty or whitespace-only chunks none, and the joined result is
   built from the outputs of those calls alone. *)
C10_NoCallOnBlankChunk ==
    /\ \A i \in DOMAIN calls :
          calls[i].op = "transform" =>
              /\ calls[i].arg = chunks[calls[i].idx]
              /\ HasNonWhitespace(calls[i].arg)
    /\ Returned =>
          /\ \A k \in DOMAIN chunks :
                Cardinality(CallsOf(k)) = (IF HasNonWhitespace(chunks[k]) THEN 1 ELSE 0)
          /\ processed_chunks = OkOutputs

C10_Witness ==
    /\ Returned
    /\ \E k \in DOMAIN chunks : chunks[k] # <<>> /\ ~HasNonWhitespace(chunks[k])
    /\ \E k \in DOMAIN chunks : chunks[k] = <<>>
    /\ Len(calls) >= 1

----------------------------------------------------------------------------
(* Properties of the session *)

\* the result the running request yields when its collaborator calls succeed
NormalResult ==
    IF caller \in {"tab1", "tab2"} THEN JoinSpace(OkOutputs) ELSE calls[1].out

(* C7: no exception escapes process_text_in_chunks, generate_script_from_topic
   or synthesize_speech; each returns a string or None, and a request whose
   collaborator calls all succeed yields its normal result whatever failed
   in the requests before it; between requests a new request is accepted. *)
C7_NoFailureIsFatal ==
    /\ raised = FALSE
    /\ pc = "idle" => ENABLED (Tab1Click \/ Tab2Click \/ Tab3Click)
    /\ pc = "return" =>
          /\ caller \in {"tab1", "tab2"} => ret # None
          /\ (FailedCalls = {} /\ calls # <<>>) => ret = NormalResult
          /\ (caller \in {"tab3", "audio"} /\ FailedCalls # {}) => ret = None

C7_Witness ==
    /\ pc = "return"
    /\ caller = "audio"
    /\ failedBefore
    /\ FailedCalls = {}
    /\ ret = <<"mp3">> \o editable_text

\* the running request failed: script generation failed, or every chunk
\* transform of a summarize request failed
RequestFailed ==
    /\ pc = "return"
    /\ calls # <<>>
    /\ \A i \in DOMAIN calls : ~calls[i].ok
    /\ caller \in {"tab1", "tab2", "tab3"}

(* C9: a failed 'Generate Script' or summarize request leaves the script
   stored by the most recent earlier successful request as the value of
   editable_text, still offered for editing. *)
C9_FailedRequestKeepsScript ==
    [][(RequestFailed /\ EditorShown) => (editable_text' = editable_text)]_vars

====
